---- MODULE Spec2Model ----
(***************************************************************************)
(* State-machine model of the digital spec agent                           *)
(* (agents/digital/digital_spec_agent.py, run_agent) and of the artifact   *)
(* registry helper (utils/artifact_utils.py).                              *)
(*                                                                         *)
(* digital_spec_agent.py does not compile: line 145 (a print) is indented  *)
(* 13 columns directly after line 144, a simple statement indented 12      *)
(* columns, and the interpreter rejects the file with                      *)
(*     IndentationError: unexpected indent (line 145)                      *)
(* when the module is imported.  A caller therefore never gets run_agent   *)
(* to run: whatever the state dict, the backend's answer, the syntax       *)
(* checker or the disk, the attempt ends with that exception, and the      *)
(* backend, the checker, the workflow directory and the registry are left  *)
(* untouched.  That is the behaviour of specification Spec.                *)
(*                                                                         *)
(* utils/artifact_utils.py compiles; specification SpecRegistry describes  *)
(* append_artifact_record and reset_workflow_artifacts called by two       *)
(* invocations on one workflow.                                            *)
(*                                                                         *)
(* Text is modelled as a metadata document followed by a sequence of       *)
(* tokens.  A token is a record [k, v]:                                    *)
(*   k = "begin" : the marker  ---BEGIN v---                               *)
(*   k = "end"   : the marker  ---END v---                                 *)
(*   k = "ws"    : one newline                                             *)
(*   k = "txt"   : the text v (no braces, no marker, no outer whitespace)  *)
(* Rendered text, file names and module names are TLA+ strings, so         *)
(* f"{name}.v" is name \o ".v".  JSON objects are functions from keys to   *)
(* values (a Python dict).  File names are relative to workflow_dir.       *)
(***************************************************************************)
EXTENDS Integers, Sequences, FiniteSets, TLC

VARIABLES
    pc,            \* position of the caller's attempt to run run_agent
    state,         \* the state dict passed in, mutated and returned
    backend,       \* what the generation backend will do: [raises, error, text]
    tool,          \* what /usr/bin/iverilog will do when it is started
    unwritable,    \* the files of the workflow directory that cannot be written
    verilog_map,   \* file name -> code captured from the markers
    files,         \* the workflow directory: file name -> content
    llmCalls,      \* number of calls made to the generation backend
    checkerCalls,  \* number of invocations of the syntax checker
    registry,      \* the workflow's artifacts column: key -> list of paths
    regCalls,      \* number of append_artifact_record calls made
    exc,           \* type of the exception that ended the attempt, "" when none
    inv,           \* the append_artifact_record invocations in progress
    appended,      \* history: the (key, path) entries whose update went through
    stale,         \* history: a read was made while another invocation held one
    resets         \* number of reset_workflow_artifacts calls made

vars == <<pc, state, backend, tool, unwritable, verilog_map, files, llmCalls,
          checkerCalls, registry, regCalls, exc, inv, appended, stale, resets>>

-----------------------------------------------------------------------------
(* Bounds of the model *)

MaxModules == 2     \* longest hierarchy.modules list in the metadata
MaxTokens == 5      \* longest token sequence of the extractor inputs
MaxAppends == 3     \* append_artifact_record calls made on one workflow
MaxResets == 1      \* reset_workflow_artifacts calls made on one workflow

-----------------------------------------------------------------------------
(* Python dict helpers *)

EmptyDict == [k \in {} |-> ""]

Has(d, k) == k \in DOMAIN d

\* d.get(k, dflt)
Get(d, k, dflt) == IF k \in DOMAIN d THEN d[k] ELSE dflt

\* d[k] = v
Put(d, k, v) == [x \in DOMAIN d \cup {k} |-> IF x = k THEN v ELSE d[x]]

-----------------------------------------------------------------------------
(* Text *)

WS == [k |-> "ws", v |-> "\n"]
Txt(s) == [k |-> "txt", v |-> s]
Begin(t) == [k |-> "begin", v |-> t]
End(t) == [k |-> "end", v |-> t]

RenderTok(t) ==
    CASE t.k = "begin" -> "---BEGIN " \o t.v \o "---"
      [] t.k = "end"   -> "---END " \o t.v \o "---"
      [] OTHER         -> t.v

RECURSIVE Render(_)
Render(toks) ==
    IF toks = <<>> THEN "" ELSE RenderTok(Head(toks)) \o Render(Tail(toks))

\* str.strip() on a token sequence: whitespace tokens at both ends go
RECURSIVE LStrip(_)
LStrip(toks) ==
    IF toks # <<>> /\ Head(toks).k = "ws" THEN LStrip(Tail(toks)) ELSE toks

RECURSIVE RStrip(_)
RStrip(toks) ==
    IF toks # <<>> /\ toks[Len(toks)].k = "ws"
    THEN RStrip(SubSeq(toks, 1, Len(toks) - 1))
    ELSE toks

Strip(toks) == RStrip(LStrip(toks))

-----------------------------------------------------------------------------
(* The metadata segment of the backend's answer *)

\* A metadata document is [kind, val]:
\*   "obj"   : a JSON object, val the dict
\*   "list" / "scalar" : JSON that is not an object, val = [text |-> literal]
\*   "bad"   : text that is not JSON, val = [text |-> the text]
\*   "empty" : no text at all
MetaObj(d) == [kind |-> "obj", val |-> d]
MetaText(kind, t) == [kind |-> kind, val |-> [text |-> t]]

\* the tokens before the first "---BEGIN"
RECURSIVE BeforeFirstBegin(_)
BeforeFirstBegin(toks) ==
    IF toks = <<>> \/ Head(toks).k = "begin" THEN <<>>
    ELSE <<Head(toks)>> \o BeforeFirstBegin(Tail(toks))

-----------------------------------------------------------------------------
(* The code texts of the model *)

AluCode == "module alu; endmodule"
RegsCode == "module regs; endmodule"
TopCode == "module top; endmodule"
InlineCode == "module inline; endmodule"
PaddedInline == "\nmodule inline; endmodule\n"

\* f"{name}.v"
DotV(n) == n \o ".v"

-----------------------------------------------------------------------------
(* The artifact registry: utils/artifact_utils.py *)

\* _normalize_artifacts_dict on a dict of lists: empty entries are dropped
NormalizeArtifactsDict(raw) ==
    [k \in DOMAIN raw |-> SelectSeq(raw[k], LAMBDA x : x # "")]

\* the merge without the test "if path not in current_list"
AppendArtifactRecordNoDedup(reg, key, path) ==
    IF path = "" THEN reg
    ELSE LET artifacts == NormalizeArtifactsDict(reg)
         IN Put(artifacts, key, Append(Get(artifacts, key, <<>>), path))

\* the read-merge-write of append_artifact_record when no call fails
AppendArtifactRecord(reg, key, path) ==
    IF path = "" THEN reg
    ELSE LET artifacts == NormalizeArtifactsDict(reg)
             current == Get(artifacts, key, <<>>)
             found == \E i \in 1..Len(current) : current[i] = path
         IN Put(artifacts, key, IF found THEN current ELSE Append(current, path))

-----------------------------------------------------------------------------
(* Inputs: what the caller passes and what the backend answers *)

Opt(k, vals) == {EmptyDict} \cup {k :> v : v \in vals}

\* flat metadata objects
FlatDicts ==
    {a @@ b @@ c @@ d :
        a \in Opt("name", {"alu"}), b \in Opt("module_name", {"core"}),
        c \in Opt("design_name", {"chip"}), d \in Opt("rtl_code", {"", InlineCode})}

\* entries of hierarchy.modules
SubModules ==
    {[name |-> "alu"], [name |-> "regs"], [module_name |-> "alu"],
     [name |-> "regs", rtl_output_file |-> "regs_rtl.v"],
     [name |-> "alu", rtl_code |-> PaddedInline],
     [description |-> "glue logic"]}

\* hierarchy.top_module, when the key is there
TopModules ==
    {EmptyDict, [name |-> "alu"], [name |-> "top"], [module_name |-> "alu"],
     [name |-> "top", rtl_code |-> InlineCode]}

SeqsUpTo(S, n) == UNION {[1..k -> S] : k \in 0..n}

Hierarchies ==
    {m @@ t : m \in Opt("modules", SeqsUpTo(SubModules, MaxModules)),
              t \in Opt("top_module", TopModules)}

HierDicts ==
    {[hierarchy |-> h] @@ f : h \in Hierarchies, f \in Opt("design_name", {"chip"})}

OtherMetas ==
    {MetaText("empty", ""), MetaText("bad", "Here is the design:"),
     MetaText("bad", "{name: alu}"), MetaText("list", "[]"),
     MetaText("scalar", "5")}

Block(t, u, code) == <<WS, Begin(t), WS, Txt(code), WS, End(u)>>

\* what follows the metadata, for the runs that vary the metadata
Rests ==
    {<<>>,
     Block("VERILOG", "VERILOG", AluCode),
     Block("alu.v", "alu.v", AluCode),
     Block("default.v", "default.v", AluCode),
     Block("alu.v", "top.v", AluCode),
     <<WS, Txt(AluCode)>>,
     Block("regs.v", "regs.v", RegsCode) \o Block("top.v", "top.v", TopCode),
     Block("alu.v", "alu.v", RegsCode) \o Block("alu.v", "alu.v", AluCode),
     <<WS, Begin("top.v"), WS, Begin("alu.v"), WS, Txt(AluCode), WS, End("alu.v"),
       WS, End("top.v")>>}

HierRests ==
    {<<>>, Block("regs.v", "regs.v", RegsCode) \o Block("top.v", "top.v", TopCode)}

\* what follows the metadata, for the runs that vary the markers
Tokens ==
    {WS, Txt(AluCode), Begin("alu.v"), End("alu.v"),
     Begin("VERILOG"), End("VERILOG")}

\* markers stand apart: two markers are never adjacent, so that the dashes of
\* one marker cannot be read as part of the token of the marker before it
IsMarker(t) == t.k \in {"begin", "end"}

\* the token of a marker may hold dashes, so the dashes of a marker that
\* directly follows another one can be read as part of the token before them;
\* the texts of the model are those that read in one way only: two markers
\* are never adjacent
WellSeparated(toks) ==
    \A i \in 1..(Len(toks) - 1) : ~(IsMarker(toks[i]) /\ IsMarker(toks[i + 1]))

TokenSeqs == {toks \in SeqsUpTo(Tokens, MaxTokens) : WellSeparated(toks)}

Texts ==
    {[meta |-> MetaObj(d), rest |-> r] : d \in FlatDicts, r \in Rests}
    \cup {[meta |-> MetaObj(d), rest |-> r] : d \in HierDicts, r \in HierRests}
    \cup {[meta |-> m, rest |-> r] : m \in OtherMetas, r \in Rests}
    \cup {[meta |-> MetaObj([name |-> "alu"]), rest |-> r] : r \in TokenSeqs}

\* the backend raises and gives no text; the backend answers the empty text
NoText == [meta |-> MetaText("none", ""), rest |-> <<>>]
EmptyText == [meta |-> MetaText("empty", ""), rest |-> <<>>]

\* str(e) of the exception the backend raises
BackendErrors == {"", "backend down"}

\* a backend raises an exception with its message, or returns a text
Backends ==
    {[raises |-> TRUE, error |-> e, text |-> NoText] : e \in BackendErrors}
    \cup {[raises |-> FALSE, error |-> "", text |-> t] : t \in Texts}

\* the backends tried with an empty prompt (the backend is never called)
EmptyPromptBackends ==
    {[raises |-> TRUE, error |-> "backend down", text |-> NoText]}
    \cup {[raises |-> FALSE, error |-> "", text |-> [meta |-> MetaObj([name |-> "alu"]), rest |-> r]] :
            r \in {<<>>, Block("VERILOG", "VERILOG", AluCode)}}

\* the state dict of the caller: the spec prompt is given, empty or absent
EmptyPromptStates == {EmptyDict, [spec |-> ""]}
PromptState == [spec |-> "design an alu"]

\* the outcomes of the syntax checker: exit code zero, a non-zero exit with
\* its output streams, or the tool cannot be started
CheckerOutcomes ==
    {[kind |-> "exit0", stderr |-> "", stdout |-> ""],
     [kind |-> "nonzero", stderr |-> "alu.v:1: syntax error", stdout |-> ""],
     [kind |-> "nonzero", stderr |-> "", stdout |-> "I give up."],
     [kind |-> "nonzero", stderr |-> "", stdout |-> ""],
     [kind |-> "cannot_invoke", stderr |-> "", stdout |-> ""]}

\* the files of the workflow directory on which open(path, "w") fails
Unwritables == {{}, {"alu.v"}, {"regs.v"}}

\* the status strings of run_agent, without their leading pictograph
StatusNoSpec == "No spec provided"
\* f"LLM generation failed: {e}"
StatusLLMFailed(e) == "LLM generation failed: " \o e
StatusPassed == "Verilog syntax check passed."
StatusSkipped == "Skipped syntax check (hierarchical)."
StatusFailed == "RTL generated but failed compilation"

RawPath == "llm_raw_output.txt"
LogPath == "spec_agent_compile.log"
SpecPath(n) == n \o "_spec.json"

-----------------------------------------------------------------------------
(* run_agent *)

\* the concurrent callers of append_artifact_record on one workflow, and an
\* invocation that is not running
Invocations == {1, 2}
IdleInv == [pc |-> "idle", key |-> "", path |-> "", snap |-> EmptyDict, missed |-> {}]

\* before the caller imports the module: the state dict, the backend, the
\* syntax checker and the disk are whatever the caller's world makes them;
\* nothing has been called or written
Init ==
    /\ pc = "start"
    /\ \/ state = PromptState /\ backend \in Backends
       \/ state \in EmptyPromptStates /\ backend \in EmptyPromptBackends
    /\ tool \in CheckerOutcomes
    /\ unwritable \in Unwritables
    /\ verilog_map = EmptyDict
    /\ files = EmptyDict
    /\ llmCalls = 0
    /\ checkerCalls = 0
    /\ registry = EmptyDict
    /\ regCalls = 0
    /\ exc = ""
    /\ inv = [i \in Invocations |-> IdleInv]
    /\ appended = {}
    /\ stale = FALSE
    /\ resets = 0

\* the import of agents.digital.digital_spec_agent: the compiler stops at
\* line 145 and the import raises; no statement of the module is executed, so
\* run_agent is never bound, never called, and returns nothing
LoadModule ==
    /\ pc = "start"
    /\ pc' = "raised"
    /\ exc' = "IndentationError"
    /\ UNCHANGED <<state, backend, tool, unwritable, verilog_map, files, llmCalls,
                   checkerCalls, registry, regCalls, inv, appended, stale, resets>>

Next == LoadModule

Spec == Init /\ [][Next]_vars

-----------------------------------------------------------------------------
(* append_artifact_record and reset_workflow_artifacts, step by step       *)
(* (pc = "appending": callers of utils/artifact_utils.py on one workflow)  *)

RegKeys == {"spec_agent_output", "spec_agent_log"}
RegPaths == {"", "alu.v", "top.v"}

\* the (key, path) entries of a registry value
Entries(r) == UNION {{<<k, r[k][n]>> : n \in 1..Len(r[k])} : k \in DOMAIN r}

agent == <<pc, state, backend, tool, unwritable, verilog_map, files, llmCalls,
           checkerCalls, exc>>

\* the call: an empty path is logged and the call returns at once
AppendCall(i) ==
    /\ pc = "appending"
    /\ inv[i].pc = "idle"
    /\ regCalls < MaxAppends
    /\ regCalls' = regCalls + 1
    /\ \E key \in RegKeys, path \in RegPaths :
          inv' = IF path = "" THEN inv
                 ELSE [inv EXCEPT ![i] = [pc |-> "select", key |-> key, path |-> path,
                                          snap |-> EmptyDict, missed |-> {}]]
    /\ UNCHANGED <<agent, registry, appended, stale, resets>>

\* the select of the artifacts column: the value read is kept, or the call
\* raises, which is logged and ends the invocation
AppendSelect(i) ==
    /\ pc = "appending"
    /\ inv[i].pc = "select"
    /\ \/ /\ inv' = [inv EXCEPT ![i].pc = "update", ![i].snap = registry]
          /\ stale' = (stale \/ \E j \in Invocations \ {i} : inv[j].pc = "update")
       \/ /\ inv' = [inv EXCEPT ![i] = IdleInv]
          /\ UNCHANGED stale
    /\ UNCHANGED <<agent, registry, regCalls, appended, resets>>

\* what the update writes: the merge of the value read by the select
UpdatePayloadRemerged(snap, current, key, path) == AppendArtifactRecord(current, key, path)
UpdatePayload(snap, current, key, path) == AppendArtifactRecord(snap, key, path)

\* the update of the artifacts column with the merged value, or the call
\* raises, which is logged and ends the invocation
AppendUpdate(i) ==
    /\ pc = "appending"
    /\ inv[i].pc = "update"
    /\ \/ /\ registry' = UpdatePayload(inv[i].snap, registry, inv[i].key, inv[i].path)
          /\ appended' = appended \cup {<<inv[i].key, inv[i].path>>}
          /\ inv' = [j \in Invocations |->
                        IF j = i THEN IdleInv
                        ELSE IF inv[j].pc = "update"
                             THEN [inv[j] EXCEPT !.missed = @ \cup {<<inv[i].key, inv[i].path>>}]
                             ELSE inv[j]]
       \/ /\ inv' = [inv EXCEPT ![i] = IdleInv]
          /\ UNCHANGED <<registry, appended>>
    /\ UNCHANGED <<agent, regCalls, stale, resets>>

\* reset_workflow_artifacts: the column is set to {}, or the update raises,
\* which is logged
ResetWorkflowArtifacts ==
    /\ pc = "appending"
    /\ resets < MaxResets
    /\ resets' = resets + 1
    /\ \/ registry' = EmptyDict
       \/ UNCHANGED registry
    /\ UNCHANGED <<agent, regCalls, inv, appended, stale>>

-----------------------------------------------------------------------------
(* The registry on its own: append_artifact_record and                     *)
(* reset_workflow_artifacts called by several invocations on one workflow  *)

\* the artifacts column when the calls begin: empty, or filled by earlier
\* appends
InitialRegistries == {EmptyDict, [spec_agent_output |-> <<"alu.v">>]}

InitRegistry ==
    /\ pc = "appending"
    /\ state = PromptState
    /\ backend = [raises |-> TRUE, error |-> "backend down", text |-> NoText]
    /\ tool = [kind |-> "exit0", stderr |-> "", stdout |-> ""]
    /\ unwritable = {}
    /\ verilog_map = EmptyDict
    /\ files = EmptyDict
    /\ llmCalls = 0
    /\ checkerCalls = 0
    /\ registry \in InitialRegistries
    /\ regCalls = 0
    /\ exc = ""
    /\ inv = [i \in Invocations |-> IdleInv]
    /\ appended = {}
    /\ stale = FALSE
    /\ resets = 0

NextRegistry ==
    \/ \E i \in Invocations : AppendCall(i) \/ AppendSelect(i) \/ AppendUpdate(i)
    \/ ResetWorkflowArtifacts

SpecRegistry == InitRegistry /\ [][NextRegistry]_vars

-----------------------------------------------------------------------------
(* The behaviour the design document describes, stated on the caller's     *)
(* inputs and on what can be observed once the attempt to run run_agent is *)
(* over                                                                    *)

\* the attempt is over: run_agent returned its state dict, or an exception
\* reached the caller
Attempted == pc \in {"returned", "raised"}

\* run_agent returned a state dict whose status is s
ReturnedStatus(s) == pc = "returned" /\ Has(state, "status") /\ state["status"] = s

\* the caller gave a spec prompt; the backend answered it with some text
Prompted == Has(state, "spec") /\ state["spec"] # ""
Answered == Prompted /\ ~backend.raises /\ backend.text # EmptyText
Toks == backend.text.rest
Meta == backend.text.meta

\* every file can be written; the syntax checker can be started
Writable == unwritable = {}
ToolRuns == tool.kind # "cannot_invoke"

\* metadata_text is the text before the first begin marker: the metadata
\* document and the tokens that follow it up to that marker.  It parses when
\* the document is JSON and nothing but whitespace follows it.
MetadataParses ==
    /\ Meta.kind \in {"obj", "list", "scalar"}
    /\ Strip(BeforeFirstBegin(Toks)) = <<>>
MetadataIsObject == MetadataParses /\ Meta.kind = "obj"

HasHierarchy == MetadataIsObject /\ Has(Meta.val, "hierarchy")
Hierarchy == Meta.val["hierarchy"]
Modules == IF Has(Hierarchy, "modules") THEN Hierarchy["modules"] ELSE <<>>
TopPresent == Has(Hierarchy, "top_module")
Top == Hierarchy["top_module"]

\* the name field of a module: <<n>> when it is there, <<>> when it is not
NameField(m) == IF Has(m, "name") THEN <<m["name"]>> ELSE <<>>

\* rule A: modules is empty and top_module is present
FlattenRuleA == Modules = <<>> /\ TopPresent

\* rule B: len(modules) == 1, or top_module.name == modules[0].name
FlattenRuleB ==
    \/ Len(Modules) = 1
    \/ /\ Len(Modules) >= 1
       /\ TopPresent
       /\ NameField(Top) = NameField(Modules[1])

\* the variant of the normalized spec; the design document names none for
\* metadata that is JSON but not an object
Variant ==
    IF ~MetadataParses THEN "ParseFailure"
    ELSE IF ~MetadataIsObject THEN "Unnamed"
    ELSE IF HasHierarchy /\ ~FlattenRuleA /\ ~FlattenRuleB THEN "Hierarchical"
    ELSE "Flat"

\* the module of a Flat spec
FlatModule ==
    IF ~HasHierarchy THEN Meta.val
    ELSE IF FlattenRuleA THEN Top
    ELSE Modules[1]

\* the first present of name, module_name, design_name, else auto_module
CanonicalName(m) ==
    IF Has(m, "name") THEN m["name"]
    ELSE IF Has(m, "module_name") THEN m["module_name"]
    ELSE IF Has(m, "design_name") THEN m["design_name"]
    ELSE "auto_module"

\* a module with its name canonicalized
Canon(m) == Put(m, "name", CanonicalName(m))

\* the normalized spec of an object metadata: flattened by rules A and B,
\* names canonicalized; it is built from the metadata alone
CanonHierarchy ==
    [k \in DOMAIN Hierarchy |->
        IF k = "modules" THEN [i \in 1..Len(Modules) |-> Canon(Modules[i])]
        ELSE IF k = "top_module" THEN Canon(Top)
        ELSE Hierarchy[k]]
NormalForm ==
    IF Variant = "Flat" THEN Canon(FlatModule)
    ELSE Put(Meta.val, "hierarchy", CanonHierarchy)

\* the persisted record p keeps every field of the module m
Keeps(p, m) == \A k \in DOMAIN m : Has(p, k) /\ p[k] = m[k]

\* the spec artifact: the file at the spec path of the result record
SpecPersisted == Has(state, "spec_json") /\ Has(files, state["spec_json"])
PersistedSpec == files[state["spec_json"]]

\* the artifact list of the result record is the sequence l
Emitted(l) == Has(state, "artifact_list") /\ state["artifact_list"] = l

\* the file f holds the content c
Holds(f, c) == Has(files, f) /\ files[f] = c

\* the position of the first ---END t--- after position p, 0 when none
MatchingEnd(toks, p, t) ==
    LET S == {q \in (p + 1)..Len(toks) : toks[q] = End(t)}
    IN IF S = {} THEN 0 ELSE CHOOSE q \in S : \A r \in S : q <= r

\* the pairs found from position p on, left to right without overlap: a
\* begin marker followed by an end marker with the same token gives
\* [token, inner], the inner text trimmed; a begin marker with no such end
\* marker gives nothing and the scan goes on after it
RECURSIVE PairedMatches(_, _)
PairedMatches(toks, p) ==
    IF p > Len(toks) THEN <<>>
    ELSE LET q == IF toks[p].k = "begin" THEN MatchingEnd(toks, p, toks[p].v) ELSE 0
         IN IF q = 0 THEN PairedMatches(toks, p + 1)
            ELSE <<[token |-> toks[p].v,
                    inner |-> Render(Strip(SubSeq(toks, p + 1, q - 1)))]>>
                 \o PairedMatches(toks, q + 1)

\* code_blocks: token -> inner text, the last pair of a token wins.  A
\* ---BEGIN VERILOG--- / ---END VERILOG--- pair is a pair of the token
\* VERILOG, so it is found by the scan for pairs.
Matches == PairedMatches(Toks, 1)
CodeBlocks ==
    [t \in {Matches[i].token : i \in 1..Len(Matches)} |->
        LET last == CHOOSE i \in 1..Len(Matches) :
                        /\ Matches[i].token = t
                        /\ \A j \in (i + 1)..Len(Matches) : Matches[j].token # t
        IN Matches[last].inner]

\* the designated default key of code_blocks, else its first-inserted entry
DefaultKey == "default.v"
DefaultOrFirstInserted ==
    IF Has(CodeBlocks, DefaultKey) THEN CodeBlocks[DefaultKey]
    ELSE CodeBlocks[Matches[1].token]

\* the modules of a Hierarchical spec in the order of emission
HierSequence == Modules \o (IF TopPresent THEN <<Top>> ELSE <<>>)

\* the file name of a module of a Hierarchical spec, and its content
FileOf(m) ==
    IF Has(m, "rtl_output_file") THEN m["rtl_output_file"] ELSE DotV(CanonicalName(m))
ContentOf(m) ==
    IF Has(m, "rtl_code") /\ m["rtl_code"] # "" THEN m["rtl_code"]
    ELSE IF Has(CodeBlocks, FileOf(m)) THEN CodeBlocks[FileOf(m)]
    ELSE ""
HierFiles == [i \in 1..Len(HierSequence) |-> FileOf(HierSequence[i])]

\* the content of the single artifact of a Flat spec
FlatFile == DotV(CanonicalName(FlatModule))
FlatContent ==
    IF Has(CodeBlocks, FlatFile) THEN CodeBlocks[FlatFile]
    ELSE IF CodeBlocks # EmptyDict THEN DefaultOrFirstInserted
    ELSE IF Has(FlatModule, "rtl_code") THEN FlatModule["rtl_code"]
    ELSE ""

-----------------------------------------------------------------------------
(* The claims *)

EndToEndText ==
    [meta |-> MetaObj([name |-> "alu"]),
     rest |-> <<WS, Begin("VERILOG"), WS, Txt(AluCode), WS, End("VERILOG")>>]

\* C1: when the backend answers {"name":"alu"} followed by one
\* ---BEGIN VERILOG--- / ---END VERILOG--- block, the run emits exactly one
\* artifact alu.v holding the trimmed inner text of the block, invokes the
\* syntax checker once, and persists a spec artifact equal to {"name":"alu"}.
C1_EndToEndGenericBlock ==
    (Attempted /\ Answered /\ backend.text = EndToEndText /\ Writable) =>
        /\ Emitted(<<"alu.v">>)
        /\ Holds("alu.v", AluCode)
        /\ checkerCalls = 1
        /\ SpecPersisted
        /\ PersistedSpec = [name |-> "alu"]

\* a hierarchy of one sub-module {name: x} and a top_module {name: y}, x # y
DistinctNamesCase ==
    /\ HasHierarchy
    /\ Len(Modules) = 1
    /\ TopPresent
    /\ DOMAIN Modules[1] = {"name"}
    /\ DOMAIN Top = {"name"}
    /\ Modules[1]["name"] # Top["name"]

\* C2: for a hierarchy with modules = [{name: x}] and top_module = {name: y},
\* x # y, the normalized spec that is persisted is Hierarchical and retains
\* both the sub-module entry and the top_module entry.
C2_DistinctNamesStayHierarchical ==
    (Attempted /\ Answered /\ DistinctNamesCase /\ Writable) =>
        /\ SpecPersisted
        /\ Has(PersistedSpec, "hierarchy")
        /\ Has(PersistedSpec["hierarchy"], "modules")
        /\ PersistedSpec["hierarchy"]["modules"] = Modules
        /\ Has(PersistedSpec["hierarchy"], "top_module")
        /\ PersistedSpec["hierarchy"]["top_module"] = Top

\* C3: for every parsed metadata object with a hierarchy field the persisted
\* normalized spec is: (A) the top_module when modules is empty and
\* top_module is present; otherwise (B) modules[0] when len(modules) = 1 or
\* top_module.name = modules[0].name; otherwise the hierarchy with its modules
\* and its top_module unchanged.
C3_FlattenRules ==
    (Attempted /\ Answered /\ HasHierarchy /\ Writable) =>
        /\ SpecPersisted
        /\ IF FlattenRuleA
           THEN ~Has(PersistedSpec, "hierarchy") /\ Keeps(PersistedSpec, Top)
           ELSE IF FlattenRuleB
           THEN ~Has(PersistedSpec, "hierarchy") /\ Keeps(PersistedSpec, Modules[1])
           ELSE /\ Has(PersistedSpec, "hierarchy")
                /\ Len(Get(PersistedSpec["hierarchy"], "modules", <<>>)) = Len(Modules)
                /\ \A i \in 1..Len(Modules) :
                      Keeps(PersistedSpec["hierarchy"]["modules"][i], Modules[i])
                /\ Has(PersistedSpec["hierarchy"], "top_module") = TopPresent
                /\ TopPresent => Keeps(PersistedSpec["hierarchy"]["top_module"], Top)

\* C4: the spec artifact of a flat module is <name>_spec.json and the default
\* output file of every module (the flat module, each hierarchy sub-module,
\* the top_module) is <name>.v, where <name> is the first present of name,
\* module_name, design_name of that module, and auto_module when it has none.
C4_CanonicalNames ==
    (Attempted /\ Answered /\ MetadataIsObject /\ Writable) =>
        IF Variant = "Flat"
        THEN /\ Has(state, "spec_json")
             /\ state["spec_json"] = SpecPath(CanonicalName(FlatModule))
             /\ Emitted(<<DotV(CanonicalName(FlatModule))>>)
        ELSE /\ Has(state, "artifact_list")
             /\ Len(state["artifact_list"]) = Len(HierSequence)
             /\ \A i \in 1..Len(HierSequence) :
                   ~Has(HierSequence[i], "rtl_output_file") =>
                       state["artifact_list"][i] = DotV(CanonicalName(HierSequence[i]))

\* C5: when the spec prompt of the state dict is empty or absent, run_agent
\* returns the status "No spec provided"; the backend has not been called, no
\* block has been extracted, no file has been written and no registry append
\* has been made.
C5_EmptyPromptGuard ==
    (Attempted /\ ~Prompted) =>
        /\ ReturnedStatus(StatusNoSpec)
        /\ llmCalls = 0
        /\ verilog_map = EmptyDict
        /\ files = EmptyDict
        /\ regCalls = 0

\* C6: when the generation call raises or returns empty text, run_agent
\* returns its failure status, no file has been written (raw dump, spec JSON,
\* .v artifact, log) and no registry append has been made.
C6_GenerationFailureWritesNothing ==
    (Attempted /\ Prompted /\ (backend.raises \/ backend.text = EmptyText)) =>
        /\ pc = "returned"
        /\ Has(state, "status")
        /\ state["status"] \in {StatusLLMFailed(e) : e \in BackendErrors}
        /\ backend.raises => state["status"] = StatusLLMFailed(backend.error)
        /\ files = EmptyDict
        /\ regCalls = 0

\* C7: the blocks extracted from the backend's text are those of the begin
\* markers followed by an end marker with the identical token, scanned left
\* to right without overlap, each under its token with the trimmed inner
\* text; a begin marker whose end token differs or is missing gives no entry
\* and does not keep a later well-formed pair from being captured.
C7_MarkerMatching ==
    (Attempted /\ Answered) => verilog_map = CodeBlocks

\* the diagnostic output of the tool is in the result record
DiagnosticsStored ==
    /\ Has(state, "error_log")
    /\ state["error_log"] \in {tool.stderr, tool.stdout}
    /\ (tool.stderr # "" \/ tool.stdout # "") => state["error_log"] # ""

\* C8: the syntax checker is invoked if and only if the normalized spec is
\* Flat; a Hierarchical spec ends with the status Skipped; for a Flat spec an
\* exit code of zero gives the status Passed and a non-zero exit the status
\* of a failed compilation, with the tool's diagnostic output in the result
\* record.
C8_ValidationGating ==
    (Attempted /\ Answered /\ Writable /\ ToolRuns /\ Variant # "Unnamed") =>
        /\ checkerCalls = (IF Variant = "Flat" THEN 1 ELSE 0)
        /\ Variant = "Hierarchical" => ReturnedStatus(StatusSkipped)
        /\ (Variant = "Flat" /\ tool.kind = "exit0") => ReturnedStatus(StatusPassed)
        /\ (Variant = "Flat" /\ tool.kind = "nonzero") =>
              ReturnedStatus(StatusFailed) /\ DiagnosticsStored

\* C9: when the syntax checker cannot be started for a Flat design, run_agent
\* still returns: the artifact written before the check is there, the log is
\* written, the registry appends are made, and the status returned is not
\* the status of a failed compilation.
C9_CheckerUnavailableDoesNotAbort ==
    (Attempted /\ Answered /\ Variant = "Flat" /\ ~ToolRuns /\ Writable) =>
        /\ pc = "returned"
        /\ Has(files, FlatFile)
        /\ Has(files, LogPath)
        /\ regCalls > 0
        /\ Has(state, "status")
        /\ state["status"] # StatusFailed

\* C10: in a run on a Hierarchical spec (the modules, then the top_module) in
\* which one artifact cannot be written, every other artifact of the sequence
\* is written.
C10_WriteFailureIsolated ==
    (/\ Attempted /\ Answered /\ Variant = "Hierarchical"
     /\ \E i \in 1..Len(HierFiles) : HierFiles[i] \in unwritable) =>
        \A i \in 1..Len(HierFiles) :
            HierFiles[i] \notin unwritable => Has(files, HierFiles[i])

C12_FlatContentPriority ==
    (Attempted /\ Answered /\ Variant = "Flat" /\ Writable) =>
        /\ Emitted(<<FlatFile>>)
        /\ Holds(FlatFile, FlatContent)

\* C13: for a Hierarchical spec run_agent returns an artifact list with one
\* entry per module, the modules in order and the top_module last; the file
\* name of a module is its rtl_output_file if present, else <name>.v; the
\* file holds the module's inline code if present and non-empty, else
\* code_blocks[file name] if present, else the empty string (of two modules
\* with one file name the later one's content).
C13_HierarchicalResolution ==
    (Attempted /\ Answered /\ Variant = "Hierarchical" /\ Writable) =>
        /\ pc = "returned"
        /\ Emitted(HierFiles)
        /\ \A i \in 1..Len(HierFiles) :
              (\A j \in (i + 1)..Len(HierFiles) : HierFiles[j] # HierFiles[i]) =>
                  Holds(HierFiles[i], ContentOf(HierSequence[i]))

\* C14: once the backend has returned non-empty text, run_agent returns a
\* result record with a status, a spec path and an artifact list, whatever the
\* metadata is: unparseable text (the raw text is then on disk), a JSON
\* object, or JSON that is not an object.
C14_AnyMetadataCompletes ==
    (Attempted /\ Answered /\ Writable /\ ToolRuns) =>
        /\ pc = "returned"
        /\ Has(state, "status")
        /\ Has(state, "spec_json")
        /\ Has(state, "artifact_list")
        /\ ~MetadataParses => Holds(RawPath, backend.text)

NoDuplicates(seq) == \A a, b \in 1..Len(seq) : a # b => seq[a] # seq[b]

\* invocation i completes its update in this step
Updates(i) == inv[i].pc = "update" /\ inv'[i].pc = "idle"

\* as long as no invocation has read while another held a value read earlier,
\* and the registry has not been reset:
\* every entry appended is in the registry, no list holds a path twice, and
\* nothing was raised
C15_State ==
    (pc = "appending" /\ ~stale /\ resets = 0) =>
        /\ appended \subseteq Entries(registry)
        /\ \A k \in DOMAIN registry : NoDuplicates(registry[k])
        /\ exc = ""

\* a step of such a history keeps every list, except that a completed update
\* may add its path at the end of the list of its key; a call with an empty
\* path and a failing select or update change nothing
C15_Step ==
    (pc = "appending" /\ ~stale' /\ resets' = 0) =>
        /\ \A k \in DOMAIN registry : k \in DOMAIN registry'
        /\ \A i \in Invocations :
              Updates(i) =>
                 /\ \A k \in DOMAIN registry \ {inv[i].key} : registry'[k] = registry[k]
                 /\ \/ registry' = registry
                    \/ /\ <<inv[i].key, inv[i].path>> \notin Entries(registry)
                       /\ registry'[inv[i].key] =
                              Append(Get(registry, inv[i].key, <<>>), inv[i].path)
                       /\ DOMAIN registry' = DOMAIN registry \cup {inv[i].key}
        /\ (\A i \in Invocations : ~Updates(i)) =>
              registry' = registry /\ appended' = appended

\* C15: under non-interleaved append_artifact_record calls on one workflow
\* every path appended under a key stays under that key, no path appears twice
\* under a key, the lists of the other keys are not changed by an append, and
\* an append with an empty path or with a failing registry read or write
\* changes nothing and raises nothing.
C15_RegistryAppendOnly == []C15_State /\ [][C15_Step]_vars

C15_Witness ==
    /\ pc = "appending"
    /\ ~stale
    /\ resets = 0
    /\ regCalls = 3
    /\ \A i \in Invocations : inv[i].pc = "idle"
    /\ appended = {<<"spec_agent_output", "alu.v">>, <<"spec_agent_output", "top.v">>,
                   <<"spec_agent_log", "alu.v">>}
    /\ registry = [spec_agent_output |-> <<"alu.v", "top.v">>,
                   spec_agent_log |-> <<"alu.v">>]

\* C16: the update of append_artifact_record writes back the merge of the
\* value its own select read, with no lock and no re-read: an entry that
\* another invocation wrote between that select and this update, and that is
\* neither in the value read nor the entry being appended, is missing from the
\* registry after the update (a lost update).
C16_LostUpdate ==
    [][\A i \in Invocations :
          (Updates(i) /\ registry' # registry) =>
              /\ registry' = AppendArtifactRecord(inv[i].snap, inv[i].key, inv[i].path)
              /\ \A e \in inv[i].missed :
                    (e \notin Entries(inv[i].snap) /\ e # <<inv[i].key, inv[i].path>>)
                        => e \notin Entries(registry')]_vars

\* both invocations have completed and an entry whose update went through is
\* not in the registry
C16_Witness ==
    /\ pc = "appending"
    /\ \A i \in Invocations : inv[i].pc = "idle"
    /\ stale
    /\ resets = 0
    /\ \E e \in appended : e \notin Entries(registry)

====
